---- MODULE Spec2Model ----
(***************************************************************************)
(* Model of the job-application workflow engine (backend/agents):          *)
(* the JobApplicationState record, the stage agents' execute methods, the  *)
(* SupervisorAgent router and the LangGraph graph built by                 *)
(* JobApplicationWorkflow._build_workflow (entry point scrape, every stage *)
(* followed by the supervisor node, conditional edge on next_action).      *)
(*                                                                         *)
(* Scores are integers in hundredths (0.70 is 70).  A job is modelled by   *)
(* its id: the mock scraper produces the ids indeed_1 .. indeed_5, here    *)
(* 1 .. 5; 0 stands for None.                                              *)
(***************************************************************************)
EXTENDS Integers, Sequences, FiniteSets, TLC

VARIABLES
    state,                 \* the JobApplicationState dict threaded through the graph
    phase,                 \* idle | running | suspended | terminal | raised
    node,                  \* the graph node the next super-step executes
    steps,                 \* super-steps executed by the current ainvoke
    invocations,           \* run / resume_workflow invocations so far
    caller_calls,          \* direct agent calls made by the caller so far
    min_score_threshold,   \* MatcherAgent.min_score_threshold (hundredths)
    last_node,             \* node executed by the latest super-step of this ainvoke
    prev_stage,            \* latest stage node (not supervisor) executed by this ainvoke
    invoked_by,            \* how the current ainvoke was started: run | resume_idle |
                           \*   resume_event (suspended, state edited) | resume_noop
    saved,                 \* the state the current ainvoke was given
    gated,                 \* jobs for which the approve node has run (a gate was opened)
    tailored_for,          \* job for which the tailor node last produced a document
    score_ran,             \* the matcher's execute has run on this state
    tailor_result,         \* outcome of the latest tailor node execution
    finalized,             \* jobs for which the apply node has run
    excluded,              \* jobs that were active when the router sent a retry to match
    loop2,                 \* a second ainvoke on the same saved state (concurrent callback)
    router_calls,          \* SupervisorAgent.execute invocations on this state so far
    gate,                  \* an ApprovalRequest row and the clock it is read against
    retry                  \* one BaseAgent.retry_on_failure call in progress

vars == <<state, phase, node, steps, invocations, caller_calls,
          min_score_threshold, last_node, prev_stage, invoked_by, saved,
          gated, tailored_for, score_ran, tailor_result, finalized, excluded,
          loop2, router_calls, gate, retry>>

----------------------------------------------------------------------------
(* Bounds of the model *)

\* super-steps one ainvoke may execute before the graph engine gives up
RecursionLimit == 25
\* run / resume_workflow invocations in one session
MaxInvocations == 3
\* direct agent calls the caller makes while building a state
MaxCallerCalls == 2
\* feedback calls (adjust_threshold, learning) made on one state
MaxFeedbackCalls == 9
\* hours the clock runs after an approval request was sent
MaxClock == 26
\* runs of the expiry sweep
MaxSweeps == 2
MaxRetries == 4

----------------------------------------------------------------------------
(* Program constants *)

\* settings.MIN_MATCH_SCORE_THRESHOLD = 0.70
MIN_MATCH_SCORE_THRESHOLD == 70
\* the mock scraper returns the jobs indeed_1 .. indeed_5
NumMockJobs == 5
\* should_continue_workflow: len(errors) > 10
ErrorBudget == 10
\* adjust_threshold: max(0.5, ...), min(0.9, ...), steps of 0.05
ThresholdFloor == 50
ThresholdCeiling == 90
ThresholdStep == 5
\* adjust_threshold: matched_count > 20
ManyMatches == 20
\* create_approval_request: timeout_hours = 24
TimeoutHours == 24

NoJob == 0
BackoffBase == 2

Stages == {"scrape", "match", "tailor", "approve", "apply", "learn"}

\* Shapes of the caller-supplied user_preferences that the code tells apart:
\*   ok       a dict with a list of keywords
\*   paused   the same with agent_status = "paused"
\*   badkw    a dict whose keywords is a non-empty set of strings: truthy and
\*            joinable, but keywords[0] raises
\*   notdict  not a dict (user_preferences.get raises)
PrefKinds == {"ok", "paused", "badkw", "notdict"}

\* Score vectors the LLM may produce for the five mock jobs (indexed by job id).
ScoreVectors ==
    { <<90, 30, 75, 60, 10>>,      \* the five-candidate scenario
      <<70, 90, 69, 90, 70>>,      \* ties and the threshold value itself
      <<69, 0, 30, 10, 60>> }      \* nothing reaches the threshold

\* Documents: tailored_resume is None, "", the base resume, or LLM output for a job.
NoDoc == [kind |-> "none", job |-> NoJob]
EmptyDoc == [kind |-> "empty", job |-> NoJob]
BaseDoc == [kind |-> "base", job |-> NoJob]
LlmDoc(j) == [kind |-> "llm", job |-> j]
\* Python truthiness of an Optional[str]
Truthy(doc) == doc.kind \in {"base", "llm"}

\* What the LLM does on one tailoring call: answers, raises, or answers "".
LlmOutcomes == {"ok", "raise", "empty"}

----------------------------------------------------------------------------
(* state.py *)

create_initial_state(user_preferences) ==
    [ user_preferences     |-> user_preferences,
      current_step         |-> "scrape",
      errors               |-> <<>>,
      scraped_jobs         |-> <<>>,
      matched_jobs         |-> <<>>,
      matching_scores      |-> <<>>,
      current_job          |-> NoJob,
      current_job_id       |-> NoJob,
      base_resume          |-> NoDoc,
      tailored_resume      |-> NoDoc,
      approval_status      |-> "None",
      application_status   |-> "None",
      strategy_adjustments |-> 0,
      agent_decisions      |-> <<>>,
      next_action          |-> "scrape" ]

add_agent_decision(s, agent, decision) ==
    [s EXCEPT !.agent_decisions =
        Append(@, [agent |-> agent, decision |-> decision])]

add_error(s, error) ==
    [s EXCEPT !.errors = Append(@, [error |-> error, step |-> s.current_step])]

----------------------------------------------------------------------------
(* scraper_agent.py *)

\* _scrape_indeed: five mock jobs; its own except clause turns a failure of
\* keywords[0] into the empty list.
_scrape_indeed(user_preferences) ==
    IF user_preferences = "badkw" THEN <<>>
    ELSE [i \in 1..NumMockJobs |-> i]

\* ScraperAgent.execute
ScraperExecute(s) ==
    IF s.user_preferences = "notdict"
    THEN \* user_preferences.get raises; the except clause records it
         [add_error(s, "Scraper error") EXCEPT !.current_step = "match"]
    ELSE LET all_jobs == _scrape_indeed(s.user_preferences)
             s1 == [s EXCEPT !.scraped_jobs = all_jobs, !.current_step = "match"]
         IN  add_agent_decision(s1, "scraper",
                 IF Len(all_jobs) = 0 THEN "scraped_0_jobs" ELSE "scraped_5_jobs")

----------------------------------------------------------------------------
(* matcher_agent.py *)

Range(seq) == {seq[i] : i \in 1..Len(seq)}

\* _calculate_match_score: the LLM's score, or 0.0 when building the prompt or
\* the LLM call raises (user_preferences.get on something that is no dict).
_calculate_match_score(job, user_preferences, sv) ==
    IF user_preferences = "notdict" THEN 0 ELSE sv[job]

\* list.sort(key = score, reverse = True): stable, highest score first.
RECURSIVE InsertByScore(_, _, _)
InsertByScore(sorted, job, scores) ==
    IF sorted = <<>> THEN <<job>>
    ELSE IF scores[Head(sorted)] >= scores[job]
         THEN <<Head(sorted)>> \o InsertByScore(Tail(sorted), job, scores)
         ELSE <<job>> \o sorted

RECURSIVE SortByScoreDesc(_, _)
SortByScoreDesc(jobs, scores) ==
    IF jobs = <<>> THEN <<>>
    ELSE InsertByScore(SortByScoreDesc(SubSeq(jobs, 1, Len(jobs) - 1), scores),
                       jobs[Len(jobs)], scores)

\* the threshold filter of the matching loop: score >= min_score_threshold
PassesThreshold(score, threshold) == score >= threshold

\* MatcherAgent.execute
MatcherExecute(s, sv, threshold) ==
    IF s.scraped_jobs = <<>>
    THEN [s EXCEPT !.current_step = "learn"]
    ELSE LET matching_scores ==
                 [j \in Range(s.scraped_jobs) |->
                     _calculate_match_score(j, s.user_preferences, sv)]
             matched_jobs ==
                 SelectSeq(s.scraped_jobs,
                           LAMBDA j : PassesThreshold(matching_scores[j], threshold))
             s1 == [s EXCEPT !.matched_jobs = SortByScoreDesc(matched_jobs, matching_scores),
                             !.matching_scores = matching_scores,
                             !.current_step = "tailor"]
         IN  add_agent_decision(s1, "matcher", "matched_jobs")

Max(a, b) == IF a >= b THEN a ELSE b
Min(a, b) == IF a <= b THEN a ELSE b

\* adjust_threshold without the max(0.5, ...) of the lowering branch (a faulty
\* variant)
adjust_threshold_no_floor(threshold, s) ==
    LET matched_count == Len(s.matched_jobs)
    IN  IF matched_count = 0
        THEN threshold - ThresholdStep
        ELSE IF matched_count > ManyMatches
        THEN Min(ThresholdCeiling, threshold + ThresholdStep)
        ELSE threshold

\* MatcherAgent.adjust_threshold (no caller in the repository): the new value
\* of self.min_score_threshold
adjust_threshold(threshold, s) ==
    LET matched_count == Len(s.matched_jobs)
    IN  IF matched_count = 0
        THEN Max(ThresholdFloor, threshold - ThresholdStep)
        ELSE IF matched_count > ManyMatches
        THEN Min(ThresholdCeiling, threshold + ThresholdStep)
        ELSE threshold

----------------------------------------------------------------------------
(* resume_tailor_agent.py *)

\* _tailor_resume: the parsed LLM answer; the base resume when the LLM raises;
\* "" when the LLM answers with the empty string.
_tailor_resume(base_resume, job, llm) ==
    CASE llm = "ok"    -> LlmDoc(job)
      [] llm = "raise" -> base_resume
      [] OTHER         -> EmptyDoc

\* ResumeTailorAgent.execute with the missing-base-resume branch moving on to
\* the approval step (a faulty variant)
ResumeTailorExecute_skips_without_base(s, llm) ==
    IF s.current_job = NoJob
    THEN [s EXCEPT !.current_step = "approve"]
    ELSE IF ~Truthy(s.base_resume)
    THEN [add_error(s, "No base resume available for tailoring")
             EXCEPT !.current_step = "approve"]
    ELSE LET s1 == [s EXCEPT
                      !.tailored_resume = _tailor_resume(s.base_resume, s.current_job, llm),
                      !.current_step = "approve"]
         IN  add_agent_decision(s1, "resume_tailor", "tailored_resume_for_job")

\* ResumeTailorAgent.execute
ResumeTailorExecute(s, llm) ==
    IF s.current_job = NoJob
    THEN [s EXCEPT !.current_step = "approve"]
    ELSE IF ~Truthy(s.base_resume)
    THEN [add_error(s, "No base resume available for tailoring")
             EXCEPT !.current_step = "match"]
    ELSE LET s1 == [s EXCEPT
                      !.tailored_resume = _tailor_resume(s.base_resume, s.current_job, llm),
                      !.current_step = "approve"]
         IN  add_agent_decision(s1, "resume_tailor", "tailored_resume_for_job")

----------------------------------------------------------------------------
(* learning_agent.py *)

\* _analyze_workflow / _generate_strategy_adjustments: the matcher's
\* new_threshold (hundredths), 0 when no matcher adjustment is generated.
\* match_rate = matched / scraped, 0 when nothing was scraped.
_generate_strategy_adjustments(s) ==
    LET scraped_count == Len(s.scraped_jobs)
        matched_count == Len(s.matched_jobs)
        high == scraped_count > 0 /\ 10 * matched_count > 8 * scraped_count
        low  == scraped_count = 0 \/ 10 * matched_count < scraped_count
    IN  IF high THEN 75 ELSE IF low THEN 60 ELSE 0

\* LearningAgent.execute
LearningExecute(s) ==
    LET s1 == [s EXCEPT !.strategy_adjustments = _generate_strategy_adjustments(s),
                        !.current_step = "complete"]
    IN  add_agent_decision(s1, "learning", "workflow_analysis_complete")

----------------------------------------------------------------------------
(* workflow.py: the nodes that are not agents *)

_approve_node(s) ==
    [s EXCEPT !.approval_status = "pending", !.current_step = "wait"]

_apply_node(s) ==
    [s EXCEPT !.application_status = "submitted", !.current_step = "learn"]

----------------------------------------------------------------------------
(* supervisor_agent.py *)

\* Each _decide_after_* returns the pair (next_action, state): two of them
\* assign to the state they are given.

_decide_after_scrape(s) ==
    IF Len(s.scraped_jobs) = 0
    THEN [next_action |-> "stop", state |-> s]
    ELSE [next_action |-> "match", state |-> s]

_decide_after_match(s) ==
    IF Len(s.matched_jobs) = 0
    THEN [next_action |-> "learn", state |-> s]
    ELSE IF s.current_job = NoJob
    THEN [next_action |-> "tailor",
          state |-> [s EXCEPT !.current_job = s.matched_jobs[1],
                              !.current_job_id = s.matched_jobs[1]]]
    ELSE [next_action |-> "tailor", state |-> s]

_decide_after_tailor(s) ==
    IF ~Truthy(s.tailored_resume)
    THEN [next_action |-> "match", state |-> s]
    ELSE [next_action |-> "approve", state |-> s]

\* _decide_after_approval with the expired row sent to learn (a faulty variant)
_decide_after_approval_expired_learn(s) ==
    CASE s.approval_status = "approved" -> [next_action |-> "apply", state |-> s]
      [] s.approval_status = "rejected" -> [next_action |-> "learn", state |-> s]
      [] s.approval_status = "expired"  -> [next_action |-> "learn", state |-> s]
      [] OTHER                          -> [next_action |-> "wait", state |-> s]

_decide_after_approval(s) ==
    CASE s.approval_status = "approved" -> [next_action |-> "apply", state |-> s]
      [] s.approval_status = "rejected" -> [next_action |-> "learn", state |-> s]
      [] s.approval_status = "expired"  -> [next_action |-> "match", state |-> s]
      [] OTHER                          -> [next_action |-> "wait", state |-> s]

_decide_after_apply(s) ==
    LET remaining_jobs == SelectSeq(s.matched_jobs, LAMBDA j : j # s.current_job_id)
        s1 == [s EXCEPT !.matched_jobs = remaining_jobs,
                        !.current_job = NoJob,
                        !.current_job_id = NoJob]
    IN  IF Len(remaining_jobs) > 0
        THEN [next_action |-> "match", state |-> s1]
        ELSE [next_action |-> "learn", state |-> s1]

_decide_after_learn(s) == [next_action |-> "stop", state |-> s]

\* the if/elif chain with an else branch that returns a name the conditional
\* edge does not map (a faulty variant)
Dispatch_else_restart(s) ==
    CASE s.current_step = "scrape"  -> _decide_after_scrape(s)
      [] s.current_step = "match"   -> _decide_after_match(s)
      [] s.current_step = "tailor"  -> _decide_after_tailor(s)
      [] s.current_step = "approve" -> _decide_after_approval(s)
      [] s.current_step = "apply"   -> _decide_after_apply(s)
      [] s.current_step = "learn"   -> _decide_after_learn(s)
      [] OTHER                      -> [next_action |-> "restart", state |-> s]

\* the if/elif chain of SupervisorAgent.execute on current_step
Dispatch(s) ==
    CASE s.current_step = "scrape"  -> _decide_after_scrape(s)
      [] s.current_step = "match"   -> _decide_after_match(s)
      [] s.current_step = "tailor"  -> _decide_after_tailor(s)
      [] s.current_step = "approve" -> _decide_after_approval(s)
      [] s.current_step = "apply"   -> _decide_after_apply(s)
      [] s.current_step = "learn"   -> _decide_after_learn(s)
      [] OTHER                      -> [next_action |-> "scrape", state |-> s]

\* SupervisorAgent.execute that also empties errors (a faulty variant)
SupervisorExecute_clears_errors(s) ==
    LET d  == Dispatch(s)
        s1 == [d.state EXCEPT !.next_action = d.next_action, !.errors = <<>>]
    IN  add_agent_decision(s1, "supervisor", d.next_action)

\* SupervisorAgent.execute
SupervisorExecute(s) ==
    LET d  == Dispatch(s)
        s1 == [d.state EXCEPT !.next_action = d.next_action]
    IN  add_agent_decision(s1, "supervisor", d.next_action)

\* SupervisorAgent.should_continue_workflow (no caller in the repository)
should_continue_workflow(s) ==
    /\ ~(Len(s.errors) > ErrorBudget)
    /\ s.user_preferences # "paused"

----------------------------------------------------------------------------
(* The session: a caller builds a state, then run / resume_workflow drive    *)
(* the compiled graph over it.                                              *)

\* no second ainvoke is in flight
NoLoop == [phase |-> "idle"]
\* no approval request has been created
NoGate == [status |-> "none"]
\* no retry_on_failure call is in progress
NoRetry == [pc |-> "idle"]

Init ==
    /\ \E p \in PrefKinds : state = create_initial_state(p)
    /\ phase = "idle"
    /\ node = "none"
    /\ steps = 0
    /\ invocations = 0
    /\ caller_calls = 0
    /\ min_score_threshold = MIN_MATCH_SCORE_THRESHOLD
    /\ last_node = "none"
    /\ prev_stage = "none"
    /\ invoked_by = "none"
    /\ saved = state
    /\ gated = {}
    /\ tailored_for = NoJob
    /\ tailor_result = "none"
    /\ finalized = {}
    /\ excluded = {}
    /\ loop2 = NoLoop
    /\ router_calls = 0
    /\ gate = NoGate
    /\ retry = NoRetry
    /\ score_ran = FALSE

\* graph.set_entry_point("scrape"): every ainvoke starts at the scrape node
EnterGraph ==
    /\ phase' = "running"
    /\ node' = "scrape"
    /\ steps' = 0
    /\ invocations' = invocations + 1
    /\ last_node' = "none"
    /\ prev_stage' = "none"
    /\ saved' = state'

\* The caller calls an agent's execute directly on the state it holds.
CallerExecute ==
    /\ phase = "idle"
    /\ invocations = 0
    /\ caller_calls < MaxCallerCalls
    /\ \/ /\ state' = ScraperExecute(state)
          /\ UNCHANGED score_ran
       \/ /\ \E sv \in ScoreVectors :
                state' = MatcherExecute(state, sv, min_score_threshold)
          /\ score_ran' = TRUE
    /\ caller_calls' = caller_calls + 1
    /\ saved' = state'
    /\ UNCHANGED <<phase, node, steps, invocations, min_score_threshold,
                   last_node, prev_stage, invoked_by, gated, tailored_for,
                   tailor_result, finalized, excluded, loop2, router_calls, gate, retry>>

\* JobApplicationWorkflow.run: a fresh initial state, then ainvoke
run ==
    /\ phase = "idle"
    /\ invocations = 0
    /\ state' = create_initial_state(state.user_preferences)
    /\ EnterGraph
    /\ invoked_by' = "run"
    /\ score_ran' = FALSE
    /\ UNCHANGED <<caller_calls, min_score_threshold, gated, tailored_for,
                   tailor_result, finalized, excluded, loop2, router_calls, gate, retry>>

\* The answers an external gate response can have written into a suspended
\* run's approval_status before it is resumed.
GateAnswers(ph) ==
    IF ph = "suspended" THEN {"approved", "rejected", "expired"} ELSE {}

\* The saved states a caller may hand to resume_workflow: the state it holds,
\* with the gate's answer, the base resume and the profile as they now stand.
SavedStates(s, ph) ==
    { [s EXCEPT !.approval_status = a, !.base_resume = b, !.user_preferences = p] :
        a \in {s.approval_status} \cup GateAnswers(ph),
        b \in {s.base_resume, BaseDoc},
        p \in PrefKinds }

\* JobApplicationWorkflow.resume_workflow: ainvoke on the saved state
resume_workflow ==
    /\ phase \in {"idle", "suspended"}
    /\ invocations < MaxInvocations
    /\ \E s \in SavedStates(state, phase) : state' = s
    /\ EnterGraph
    /\ invoked_by' = CASE phase = "idle"   -> "resume_idle"
                        [] state' = state  -> "resume_noop"
                        [] OTHER           -> "resume_event"
    /\ UNCHANGED <<caller_calls, min_score_threshold, gated, tailored_for,
                   tailor_result, finalized, excluded, loop2, router_calls, gate, retry, score_ran>>

\* A stage node runs, then the edge to the supervisor node is taken.
StageDone(stage) ==
    /\ node' = "supervisor"
    /\ steps' = steps + 1
    /\ last_node' = stage
    /\ prev_stage' = stage
    /\ UNCHANGED <<phase, invocations, caller_calls, min_score_threshold,
                   invoked_by, saved>>

CanStep(n) ==
    /\ phase = "running"
    /\ node = n
    /\ steps < RecursionLimit

_scrape_node ==
    /\ CanStep("scrape")
    /\ state' = ScraperExecute(state)
    /\ StageDone("scrape")
    /\ UNCHANGED <<gated, tailored_for, tailor_result, finalized, excluded,
                   loop2, router_calls, gate, retry, score_ran>>

_match_node ==
    /\ CanStep("match")
    /\ \E sv \in ScoreVectors : state' = MatcherExecute(state, sv, min_score_threshold)
    /\ StageDone("match")
    /\ score_ran' = TRUE
    /\ UNCHANGED <<gated, tailored_for, tailor_result, finalized, excluded,
                   loop2, router_calls, gate, retry>>

\* How ResumeTailorAgent.execute ends: "skipped" (no current job), "no_base"
\* (base resume missing), or the LLM call's outcome.
TailorOutcome(s, llm) ==
    IF s.current_job = NoJob THEN "skipped"
    ELSE IF ~Truthy(s.base_resume) THEN "no_base"
    ELSE llm

_tailor_node ==
    /\ CanStep("tailor")
    /\ \E llm \in LlmOutcomes :
          /\ state' = ResumeTailorExecute(state, llm)
          /\ tailor_result' = TailorOutcome(state, llm)
    /\ StageDone("tailor")
    /\ UNCHANGED <<gated, score_ran, finalized, excluded, loop2, router_calls, gate, retry>>
    /\ tailored_for' = IF state'.tailored_resume # state.tailored_resume
                          \/ Len(state'.agent_decisions) > Len(state.agent_decisions)
                       THEN state.current_job
                       ELSE tailored_for

ApproveNode ==
    /\ CanStep("approve")
    /\ state' = _approve_node(state)
    /\ StageDone("approve")
    /\ gated' = gated \cup {state.current_job_id}
    /\ UNCHANGED <<tailored_for, tailor_result, finalized, excluded, loop2, router_calls, gate, retry,
                   score_ran>>

ApplyNode ==
    /\ CanStep("apply")
    /\ state' = _apply_node(state)
    /\ StageDone("apply")
    /\ finalized' = finalized \cup {state.current_job_id}
    /\ UNCHANGED <<gated, tailored_for, tailor_result, excluded, loop2, router_calls, gate, retry,
                   score_ran>>

_learn_node ==
    /\ CanStep("learn")
    /\ state' = LearningExecute(state)
    /\ StageDone("learn")
    /\ UNCHANGED <<gated, tailored_for, tailor_result, finalized, excluded,
                   loop2, router_calls, gate, retry, score_ran>>

\* _route_next_step and the conditional edge: a stage name loops, "stop" and
\* "wait" both lead to END.
_route_next_step(s) == s.next_action

\* The two rows that send the run back to match to "try next job": a tailor
\* row without a tailored resume, an approve row with an expired approval.
IsRetry(s) ==
    \/ s.current_step = "tailor" /\ ~Truthy(s.tailored_resume)
    \/ s.current_step = "approve" /\ s.approval_status = "expired"

_supervisor_node ==
    /\ CanStep("supervisor")
    /\ state' = SupervisorExecute(state)
    /\ LET next_action == _route_next_step(state')
       IN  /\ phase' = CASE next_action = "wait" -> "suspended"
                         [] next_action = "stop" -> "terminal"
                         [] OTHER                -> "running"
           /\ node' = IF next_action \in Stages THEN next_action ELSE "none"
    /\ steps' = steps + 1
    /\ last_node' = "supervisor"
    /\ excluded' = IF IsRetry(state) THEN excluded \cup {state.current_job_id}
                   ELSE excluded
    /\ UNCHANGED <<invocations, caller_calls, min_score_threshold,
                   prev_stage, invoked_by, saved, gated, tailored_for,
                   tailor_result, finalized, loop2, gate, retry, score_ran>>
    /\ router_calls' = router_calls + 1

\* The graph engine's step budget is used up before END is reached: ainvoke
\* raises, and run / resume_workflow log and re-raise.
RecursionAbort ==
    /\ phase = "running"
    /\ steps >= RecursionLimit
    /\ phase' = "raised"
    /\ node' = "none"
    /\ UNCHANGED <<state, steps, invocations, caller_calls,
                   min_score_threshold, last_node, prev_stage, invoked_by,
                   saved, gated, tailored_for, tailor_result, finalized,
                   excluded, loop2, router_calls, gate, retry, score_ran>>

Next ==
    \/ CallerExecute
    \/ run
    \/ resume_workflow
    \/ _scrape_node
    \/ _match_node
    \/ _tailor_node
    \/ ApproveNode
    \/ ApplyNode
    \/ _learn_node
    \/ _supervisor_node
    \/ RecursionAbort

Spec == Init /\ [][Next]_vars

----------------------------------------------------------------------------
(* The router's except clause.  Nothing the stages write makes a _decide_*  *)
(* call raise, so Spec has no such step; RouterSpec adds it as an outcome of *)
(* SupervisorAgent.execute (for instance len() of a matched_jobs that is     *)
(* None in a state handed to resume_workflow).                               *)

\* SupervisorAgent.execute, except clause
SupervisorRaised(s) ==
    [add_error(s, "Supervisor error") EXCEPT !.next_action = "stop"]

SupervisorRaises ==
    /\ CanStep("supervisor")
    /\ state' = SupervisorRaised(state)
    /\ phase' = "terminal"
    /\ node' = "none"
    /\ steps' = steps + 1
    /\ last_node' = "supervisor"
    /\ router_calls' = router_calls + 1
    /\ UNCHANGED <<invocations, caller_calls, min_score_threshold,
                   prev_stage, invoked_by, saved, gated, tailored_for,
                   tailor_result, finalized, excluded, loop2, gate, retry,
                   score_ran>>

RouterNext ==
    \/ CallerExecute
    \/ run
    \/ resume_workflow
    \/ _scrape_node
    \/ _match_node
    \/ _tailor_node
    \/ ApproveNode
    \/ ApplyNode
    \/ _learn_node
    \/ _supervisor_node
    \/ SupervisorRaises
    \/ RecursionAbort

RouterSpec == Init /\ [][RouterNext]_vars

----------------------------------------------------------------------------
(* Two callbacks resume the same suspended run.  resume_workflow takes no   *)
(* lock and keeps no registry of runs in flight: each call is its own        *)
(* ainvoke over the saved state it was handed, and the two coroutines        *)
(* interleave at every await.  The first ainvoke is modelled by the          *)
(* variables above, the second by loop2.                                     *)

\* A run suspended at its first gate: scored by the caller, resumed with a
\* base resume, tailored, and waiting for the approval.
SuspendedRun(sv) ==
    LET s1 == ScraperExecute(create_initial_state("ok"))
        s2 == MatcherExecute(s1, sv, MIN_MATCH_SCORE_THRESHOLD)
        s3 == [s2 EXCEPT !.base_resume = BaseDoc]
        s4 == SupervisorExecute(ScraperExecute(s3))
        s5 == SupervisorExecute(ResumeTailorExecute(s4, "ok"))
    IN  [handed |-> s3, suspended |-> s5]

ConcInit ==
    /\ \E sv \in ScoreVectors :
          /\ SuspendedRun(sv).suspended.next_action = "wait"
          /\ state = SuspendedRun(sv).suspended
          /\ saved = SuspendedRun(sv).handed
    /\ phase = "suspended"
    /\ node = "none"
    /\ steps = 4
    /\ invocations = 1
    /\ caller_calls = 2
    /\ min_score_threshold = MIN_MATCH_SCORE_THRESHOLD
    /\ last_node = "supervisor"
    /\ prev_stage = "tailor"
    /\ invoked_by = "resume_idle"
    /\ gated = {}
    /\ tailored_for = state.current_job
    /\ score_ran = TRUE
    /\ tailor_result = "ok"
    /\ finalized = {}
    /\ excluded = {}
    /\ loop2 = NoLoop
    /\ router_calls = 2
    /\ gate = NoGate
    /\ retry = NoRetry

\* The approval callback: it writes the gate's answer into the suspended
\* run's state and calls resume_workflow on it.
resume_callback ==
    /\ phase = "suspended"
    /\ invocations < MaxInvocations
    /\ \E a \in GateAnswers(phase) : state' = [state EXCEPT !.approval_status = a]
    /\ EnterGraph
    /\ invoked_by' = "resume_event"
    /\ UNCHANGED <<caller_calls, min_score_threshold, gated, tailored_for,
                   score_ran, tailor_result, finalized, excluded, loop2, router_calls, gate, retry>>

\* The results a stage node can leave on state s.
NodeResults(n, s) ==
    CASE n = "scrape"  -> {ScraperExecute(s)}
      [] n = "match"   -> {MatcherExecute(s, sv, min_score_threshold) : sv \in ScoreVectors}
      [] n = "tailor"  -> {ResumeTailorExecute(s, llm) : llm \in LlmOutcomes}
      [] n = "approve" -> {_approve_node(s)}
      [] n = "apply"   -> {_apply_node(s)}
      [] n = "learn"   -> {LearningExecute(s)}

\* A second resume_workflow call arrives for the saved state while the first
\* ainvoke is executing: nothing in resume_workflow refuses or delays it.
resume_concurrent ==
    /\ phase = "running"
    /\ loop2.phase = "idle"
    /\ loop2' = [phase |-> "running", state |-> saved, node |-> "scrape", steps |-> 0]
    /\ UNCHANGED <<state, phase, node, steps, invocations, caller_calls,
                   min_score_threshold, last_node, prev_stage, invoked_by,
                   saved, gated, tailored_for, score_ran, tailor_result,
                   finalized, excluded, router_calls, gate, retry>>

Loop2CanStep ==
    /\ loop2.phase = "running"
    /\ loop2.steps < RecursionLimit

Loop2Unchanged ==
    UNCHANGED <<state, phase, node, steps, invocations, caller_calls,
                min_score_threshold, last_node, prev_stage, invoked_by, saved,
                gated, tailored_for, score_ran, tailor_result, finalized,
                excluded, router_calls, gate, retry>>

Loop2Stage ==
    /\ Loop2CanStep
    /\ loop2.node \in Stages
    /\ \E s \in NodeResults(loop2.node, loop2.state) :
          loop2' = [loop2 EXCEPT !.state = s, !.node = "supervisor",
                                 !.steps = loop2.steps + 1]
    /\ Loop2Unchanged

Loop2Supervisor ==
    /\ Loop2CanStep
    /\ loop2.node = "supervisor"
    /\ LET s == SupervisorExecute(loop2.state)
           next_action == _route_next_step(s)
       IN  loop2' = IF next_action \in Stages
                    THEN [loop2 EXCEPT !.state = s, !.node = next_action,
                                       !.steps = loop2.steps + 1]
                    ELSE [phase |-> "returned"]
    /\ Loop2Unchanged

Loop2Abort ==
    /\ loop2.phase = "running"
    /\ loop2.steps >= RecursionLimit
    /\ loop2' = [phase |-> "raised"]
    /\ Loop2Unchanged

ConcNext ==
    \/ resume_callback
    \/ _scrape_node
    \/ _match_node
    \/ _tailor_node
    \/ ApproveNode
    \/ ApplyNode
    \/ _learn_node
    \/ _supervisor_node
    \/ RecursionAbort
    \/ resume_concurrent
    \/ Loop2Stage
    \/ Loop2Supervisor
    \/ Loop2Abort

ConcSpec == ConcInit /\ [][ConcNext]_vars

----------------------------------------------------------------------------
(* The feedback functions applied to a state: MatcherAgent.adjust_threshold *)
(* moves self.min_score_threshold, LearningAgent.execute writes the          *)
(* matcher's new_threshold into strategy_adjustments.                        *)

\* <<matched, scraped>> counts of the states the feedback is applied to
FeedbackCounts ==
    { <<0, 0>>, <<0, 10>>, <<1, 20>>, <<3, 5>>, <<5, 5>>, <<9, 10>>,
      <<21, 25>>, <<21, 40>> }

StartThresholds == ThresholdFloor..ThresholdCeiling

\* a state after matching with the given numbers of matched and scraped jobs
FeedbackState(matched_count, scraped_count) ==
    [create_initial_state("ok") EXCEPT
        !.scraped_jobs = [i \in 1..scraped_count |-> i],
        !.matched_jobs = [i \in 1..matched_count |-> i],
        !.current_step = "tailor"]

ThresholdInit ==
    /\ \E c \in FeedbackCounts : state = FeedbackState(c[1], c[2])
    /\ min_score_threshold \in StartThresholds
    /\ phase = "idle"
    /\ node = "none"
    /\ steps = 0
    /\ invocations = 0
    /\ caller_calls = 0
    /\ last_node = "none"
    /\ prev_stage = "none"
    /\ invoked_by = "none"
    /\ saved = state
    /\ gated = {}
    /\ tailored_for = NoJob
    /\ score_ran = TRUE
    /\ tailor_result = "none"
    /\ finalized = {}
    /\ excluded = {}
    /\ loop2 = NoLoop
    /\ router_calls = 0
    /\ gate = NoGate
    /\ retry = NoRetry

FeedbackUnchanged ==
    UNCHANGED <<phase, node, steps, invocations, last_node, prev_stage,
                invoked_by, saved, gated, tailored_for, score_ran,
                tailor_result, finalized, excluded, loop2, router_calls, gate, retry>>

\* await matcher.adjust_threshold(state)
AdjustThreshold ==
    /\ caller_calls < MaxFeedbackCalls
    /\ min_score_threshold' = adjust_threshold(min_score_threshold, state)
    /\ caller_calls' = caller_calls + 1
    /\ UNCHANGED state
    /\ FeedbackUnchanged

\* await learning.execute(state)
LearnFeedback ==
    /\ caller_calls < MaxFeedbackCalls
    /\ state' = LearningExecute(state)
    /\ caller_calls' = caller_calls + 1
    /\ UNCHANGED min_score_threshold
    /\ FeedbackUnchanged

ThresholdNext ==
    \/ AdjustThreshold
    \/ LearnFeedback

ThresholdSpec == ThresholdInit /\ [][ThresholdNext]_vars

----------------------------------------------------------------------------
(* models/approval_request.py and services/email_approval.py: one           *)
(* ApprovalRequest row, the methods that change it, the clock it is read     *)
(* against (hours since sent_at) and the two service entry points.           *)

\* ApprovalRequest.create_approval_request
create_approval_request(timeout_hours) ==
    [status       |-> "pending",
     expires_at   |-> timeout_hours,
     responded_at |-> "None",
     now          |-> 0,
     result       |-> "None",
     sweeps       |-> 0]

\* ApprovalRequest.is_expired
is_expired(g) == g.now > g.expires_at /\ g.status = "pending"

\* ApprovalRequest.approve
approve(g) == [g EXCEPT !.status = "approved", !.responded_at = g.now]

\* ApprovalRequest.reject
reject(g) == [g EXCEPT !.status = "rejected", !.responded_at = g.now]

\* ApprovalRequest.expire
expire(g) == IF g.status = "pending" THEN [g EXCEPT !.status = "expired"] ELSE g

\* EmailApprovalService.process_approval_response: builds its result and
\* returns it; the request is not fetched (TODO in the source)
process_approval_response(g, action) == [g EXCEPT !.result = action]

\* EmailApprovalService.check_expired_approvals: logs and returns the empty
\* list; no request is queried or marked (TODO in the source)
check_expired_approvals(g) == [g EXCEPT !.sweeps = g.sweeps + 1]

GateInit ==
    /\ \E p \in PrefKinds : state = create_initial_state(p)
    /\ gate = create_approval_request(TimeoutHours)
    /\ phase = "idle"
    /\ node = "none"
    /\ steps = 0
    /\ invocations = 0
    /\ caller_calls = 0
    /\ min_score_threshold = MIN_MATCH_SCORE_THRESHOLD
    /\ last_node = "none"
    /\ prev_stage = "none"
    /\ invoked_by = "none"
    /\ saved = state
    /\ gated = {}
    /\ tailored_for = NoJob
    /\ score_ran = FALSE
    /\ tailor_result = "none"
    /\ finalized = {}
    /\ excluded = {}
    /\ loop2 = NoLoop
    /\ router_calls = 0
    /\ retry = NoRetry

GateUnchanged ==
    UNCHANGED <<state, phase, node, steps, invocations, caller_calls,
                min_score_threshold, last_node, prev_stage, invoked_by, saved,
                gated, tailored_for, score_ran, tailor_result, finalized,
                excluded, loop2, router_calls, retry>>

Approve ==
    /\ gate' = approve(gate)
    /\ GateUnchanged

Reject ==
    /\ gate' = reject(gate)
    /\ GateUnchanged

Expire ==
    /\ gate' = expire(gate)
    /\ GateUnchanged

ProcessApprovalResponse ==
    /\ \E action \in {"approve", "reject"} :
          gate' = process_approval_response(gate, action)
    /\ GateUnchanged

CheckExpiredApprovals ==
    /\ gate.sweeps < MaxSweeps
    /\ gate' = check_expired_approvals(gate)
    /\ GateUnchanged

\* datetime.utcnow() moves on by an hour
Tick ==
    /\ gate.now < MaxClock
    /\ gate' = [gate EXCEPT !.now = gate.now + 1]
    /\ GateUnchanged

GateNext ==
    \/ Approve
    \/ Reject
    \/ Expire
    \/ ProcessApprovalResponse
    \/ CheckExpiredApprovals
    \/ Tick

GateSpec == GateInit /\ [][GateNext]_vars

----------------------------------------------------------------------------
(* base_agent.py: BaseAgent.retry_on_failure, one call followed from entry to
   its return or raise.  The position is the for statement, the awaited
   func, the awaited _wait_before_retry, or the end of the call. *)

\* what a call of func can return, and what it can raise
FuncValues == {"value_a", "value_b"}
FuncExceptions == {"TimeoutError", "ValueError"}

\* entry of retry_on_failure(func, max_retries)
retry_on_failure(max_retries) ==
    [pc          |-> "for",
     max_retries |-> max_retries,
     attempt     |-> 0,
     calls       |-> 0,
     failures    |-> <<>>,
     waits       |-> <<>>,
     returned    |-> "None",
     raised      |-> "None",
     func_value  |-> "None"]

RetryInit ==
    /\ \E max_retries \in 0..MaxRetries : retry = retry_on_failure(max_retries)
    /\ state = create_initial_state("ok")
    /\ gate = NoGate
    /\ phase = "idle"
    /\ node = "none"
    /\ steps = 0
    /\ invocations = 0
    /\ caller_calls = 0
    /\ min_score_threshold = MIN_MATCH_SCORE_THRESHOLD
    /\ last_node = "none"
    /\ prev_stage = "none"
    /\ invoked_by = "none"
    /\ saved = state
    /\ gated = {}
    /\ tailored_for = NoJob
    /\ score_ran = FALSE
    /\ tailor_result = "none"
    /\ finalized = {}
    /\ excluded = {}
    /\ loop2 = NoLoop
    /\ router_calls = 0

RetryUnchanged ==
    UNCHANGED <<state, phase, node, steps, invocations, caller_calls,
                min_score_threshold, last_node, prev_stage, invoked_by, saved,
                gated, tailored_for, score_ran, tailor_result, finalized,
                excluded, loop2, router_calls, gate>>

\* for attempt in range(max_retries): the next iteration, or the end of the
\* loop, after which the coroutine returns None
ForAttempt ==
    /\ retry.pc = "for"
    /\ retry' = IF retry.attempt < retry.max_retries
                THEN [retry EXCEPT !.pc = "call"]
                ELSE [retry EXCEPT !.pc = "returned", !.returned = "None"]
    /\ RetryUnchanged

\* return await func(*args, **kwargs), func returning a value
FuncReturns ==
    /\ retry.pc = "call"
    /\ \E v \in FuncValues :
          retry' = [retry EXCEPT !.pc = "returned",
                                 !.calls = retry.calls + 1,
                                 !.func_value = v,
                                 !.returned = v]
    /\ RetryUnchanged

\* func raising: the except clause re-raises on the last attempt and
\* otherwise awaits _wait_before_retry(attempt)
FuncRaises ==
    /\ retry.pc = "call"
    /\ \E e \in FuncExceptions :
          retry' = IF retry.attempt = retry.max_retries - 1
                   THEN [retry EXCEPT !.pc = "raised",
                                      !.calls = retry.calls + 1,
                                      !.failures = Append(retry.failures, e),
                                      !.raised = e]
                   ELSE [retry EXCEPT !.pc = "wait",
                                      !.calls = retry.calls + 1,
                                      !.failures = Append(retry.failures, e)]
    /\ RetryUnchanged

\* _wait_before_retry: asyncio.sleep(2 ** attempt), then the next iteration
_wait_before_retry ==
    /\ retry.pc = "wait"
    /\ retry' = [retry EXCEPT !.pc = "for",
                              !.waits = Append(retry.waits, BackoffBase ^ retry.attempt),
                              !.attempt = retry.attempt + 1]
    /\ RetryUnchanged

RetryNext ==
    \/ ForAttempt
    \/ FuncReturns
    \/ FuncRaises
    \/ _wait_before_retry

RetrySpec == RetryInit /\ [][RetryNext]_vars

----------------------------------------------------------------------------
(* Properties *)

\* a Router decision has just been taken, right after stage st ran
DecidedAfter(st) == last_node = "supervisor" /\ prev_stage = st

\* the ainvoke in progress has ended (END reached, or the step budget used up)
Ended == phase \in {"suspended", "terminal", "raised"}

\* C1: when the supervisor node is about to run right after a stage node, the
\* current_step it dispatches on names the stage that just ran.
C1_RouterDispatchesOnStageJustRun ==
    (phase = "running" /\ node = "supervisor" /\ prev_stage \in Stages)
        => state.current_step = prev_stage

\* C2: a run started by run() ends by a Router decision of stop or wait; it
\* never cycles through stages until the engine's step budget is used up.
C2_RunEndsByStopOrWait ==
    (invoked_by = "run" /\ Ended)
        => (phase \in {"suspended", "terminal"} /\ state.next_action \in {"stop", "wait"})

\* C3: the Router's decision right after the approve node (which leaves the
\* approval pending) is wait, so the run suspends.
C3_GateThenWait ==
    DecidedAfter("approve") => (state.next_action = "wait" /\ phase = "suspended")

\* C4: the apply node executes for a candidate only if the approve node opened
\* a gate for that same candidate.
C4_FinalizeOnlyAfterGate ==
    last_node = "apply"
        => (state.current_job_id # NoJob /\ state.current_job_id \in gated)

\* C5: the first node a resume of a suspended run executes is the supervisor
\* (the gate re-evaluation), and up to that decision no item, score, accepted
\* candidate or document differs from the saved state.
ResumedSuspended == invoked_by \in {"resume_event", "resume_noop"}

C5_ResumeEntersAtGateDecision ==
    (ResumedSuspended /\ steps = 1)
        => /\ last_node = "supervisor"
           /\ state.scraped_jobs = saved.scraped_jobs
           /\ state.matching_scores = saved.matching_scores
           /\ state.matched_jobs = saved.matched_jobs
           /\ state.tailored_resume = saved.tailored_resume

\* C6: a resume of a suspended run whose gate is still pending, with no
\* external event, ends in wait again and leaves items, scores, accepted,
\* activeCandidate, the document, errors and the decision log as they were.
SameRunState(a, b) ==
    /\ a.scraped_jobs = b.scraped_jobs
    /\ a.matching_scores = b.matching_scores
    /\ a.matched_jobs = b.matched_jobs
    /\ a.current_job = b.current_job
    /\ a.current_job_id = b.current_job_id
    /\ a.tailored_resume = b.tailored_resume
    /\ a.errors = b.errors
    /\ a.agent_decisions = b.agent_decisions

C6_NoopResumeIsIdempotent ==
    (invoked_by = "resume_noop" /\ saved.approval_status = "pending" /\ Ended)
        => /\ phase = "suspended"
           /\ state.next_action = "wait"
           /\ SameRunState(state, saved)

\* C7: at every Router decision taken with more than ErrorBudget errors or
\* with the pause signal in the profile, the decision is stop.
C7_GlobalOverride ==
    (last_node = "supervisor" /\ ~should_continue_workflow(state))
        => state.next_action = "stop"

\* C8: right after the scrape node the Router decides learn when scraped_jobs
\* is empty and match when it is not.
C8_AfterDiscover ==
    DecidedAfter("scrape")
        => /\ state.scraped_jobs = <<>> => state.next_action = "learn"
           /\ state.scraped_jobs # <<>> => state.next_action = "match"

\* C9: the Score stage followed by the Router, on a state with no active
\* candidate: learn when nothing is accepted, otherwise the accepted candidate
\* with the highest score (the earlier-discovered one on a tie) becomes the
\* active candidate and the decision is tailor; on the five-candidate scenario
\* accepted is <<1, 3>> and the active candidate is 1.
IndexOf(seq, x) == CHOOSE i \in 1..Len(seq) : seq[i] = x

HighestScored(s) ==
    CHOOSE j \in Range(s.matched_jobs) :
        \A k \in Range(s.matched_jobs) :
            \/ s.matching_scores[k] < s.matching_scores[j]
            \/ /\ s.matching_scores[k] = s.matching_scores[j]
               /\ IndexOf(s.scraped_jobs, j) <= IndexOf(s.scraped_jobs, k)

ScenarioA == <<90, 30, 75, 60, 10>>

C9_ScoreThenRouter ==
    \A sv \in ScoreVectors :
        state.current_job = NoJob =>
            LET s1 == MatcherExecute(state, sv, min_score_threshold)
                s2 == SupervisorExecute(s1)
            IN  /\ IF s1.matched_jobs = <<>>
                   THEN s2.next_action = "learn"
                   ELSE /\ s2.next_action = "tailor"
                        /\ s2.current_job = HighestScored(s1)
                        /\ s2.current_job_id = HighestScored(s1)
                /\ ( /\ sv = ScenarioA
                     /\ Len(state.scraped_jobs) = NumMockJobs
                     /\ state.user_preferences # "notdict"
                     /\ min_score_threshold = MIN_MATCH_SCORE_THRESHOLD )
                   => (s1.matched_jobs = <<1, 3>> /\ s2.current_job = 1)

\* C10: once the Score stage has run, matched_jobs holds only ids of
\* scraped_jobs whose score reached the threshold, every key of
\* matching_scores is the id of a scraped job, and a Score execution on empty
\* scraped_jobs leaves matched_jobs empty.
C10_AcceptedRecomputed ==
    score_ran =>
        /\ \A j \in Range(state.matched_jobs) :
              /\ j \in Range(state.scraped_jobs)
              /\ j \in DOMAIN state.matching_scores
              /\ state.matching_scores[j] >= min_score_threshold
        /\ DOMAIN state.matching_scores \subseteq Range(state.scraped_jobs)
        /\ (last_node = "match" /\ state.scraped_jobs = <<>>) => state.matched_jobs = <<>>


\* C11: after the tailor node has run for the current job, the router's decision
\* is approve when the tailoring produced a document and match when it failed
\* (no base resume, LLM failure); a failed tailoring never reaches the
\* approve node.
TailorFailed == tailor_result \in {"no_base", "raise"}

C11_AfterTailor ==
    /\ DecidedAfter("tailor") =>
          /\ tailor_result = "ok" => state.next_action = "approve"
          /\ TailorFailed => state.next_action = "match"
    /\ (last_node = "approve" /\ prev_stage = "approve") => ~TailorFailed


\* C12: when the router evaluates the approve row, its decision is a function
\* of approval_status alone: approved -> apply, rejected -> learn,
\* expired -> match, pending or None -> wait.
GateTable(approval_status) ==
    CASE approval_status = "approved" -> "apply"
      [] approval_status = "rejected" -> "learn"
      [] approval_status = "expired"  -> "match"
      [] OTHER                        -> "wait"

WithoutJob(jobs, id) == SelectSeq(jobs, LAMBDA j : j # id)

RouterStepAfter(st) ==
    /\ phase = "running"
    /\ node = "supervisor"
    /\ prev_stage = st
    /\ last_node' = "supervisor"

C13_AfterApply ==
    [][RouterStepAfter("apply") =>
          /\ state'.matched_jobs = WithoutJob(state.matched_jobs, state.current_job_id)
          /\ state'.current_job = NoJob
          /\ state'.current_job_id = NoJob
          /\ state'.next_action =
                IF Len(state'.matched_jobs) > 0 THEN "match" ELSE "learn"]_vars


\* C14: a job for which the apply node has run is never made the current job
\* again: the apply node never runs twice for one job, the router never selects
\* an applied job, and once the router has decided after an apply the applied
\* job is no longer among matched_jobs, so each apply -> match pass has fewer
\* jobs left.
C14_FinalizedNeverReselected ==
    [][/\ (phase = "running" /\ node = "apply" /\ last_node' = "apply")
            => state.current_job_id \notin finalized
       /\ (state'.current_job_id # state.current_job_id)
            => state'.current_job_id \notin finalized
       /\ RouterStepAfter("apply")
            => /\ state'.current_job_id \notin finalized
               /\ \A j \in finalized : j \notin Range(state'.matched_jobs)
               /\ Len(state'.matched_jobs) < Len(state.matched_jobs)]_vars


\* C15: when the router sends the run back to match as a retry (tailoring
\* failed, or the approval expired), the job that was current is excluded from
\* every later selection: no later tailor, approve or apply node runs for it.
C15_RetryExcludesActive ==
    (last_node \in {"tailor", "approve", "apply"} /\ state.current_job_id # NoJob)
        => state.current_job_id \notin excluded


\* C16: after the learn node has run the router's decision is stop, and the
\* learning agent executes at most once in a run.
LearnExecutions(s) ==
    Cardinality({i \in 1..Len(s.agent_decisions) : s.agent_decisions[i].agent = "learning"})

C16_LearnThenStop ==
    /\ DecidedAfter("learn") => state.next_action = "stop"
    /\ LearnExecutions(state) <= 1


\* C17: at most one graph loop is executing for a run at any time: while one
\* run / resume_workflow invocation is executing stages, a second concurrent
\* invocation for the same run does not execute stages.
C17_OneLoopPerRun ==
    ~(/\ phase = "running" /\ steps >= 1
      /\ loop2.phase = "running" /\ loop2.steps >= 1)


\* C18: starting from a threshold in [0.50, 0.90], the threshold is in
\* [0.50, 0.90] after any number of feedback adjustments: both
\* min_score_threshold as adjust_threshold moves it and the new_threshold the
\* learning agent writes.
InRange(threshold) == threshold >= 50 /\ threshold <= 90

C18_ThresholdInRange ==
    /\ InRange(min_score_threshold)
    /\ state.strategy_adjustments # 0 => InRange(state.strategy_adjustments)

C18_Witness ==
    /\ caller_calls >= 2
    /\ state.matched_jobs = <<>>
    /\ min_score_threshold = 50
    /\ state.strategy_adjustments = 60


\* C19: one feedback adjustment with acceptance rate r = |matched| / |scraped|
\* lowers the threshold by 0.05, not below 0.50, when r < 0.10; raises it by
\* 0.05, not above 0.90, when r > 0.80; and leaves it unchanged otherwise
\* (0 matched of 10 scraped at 0.70 gives 0.65).
LowRate(s) == 10 * Len(s.matched_jobs) < Len(s.scraped_jobs)
HighRate(s) == 10 * Len(s.matched_jobs) > 8 * Len(s.scraped_jobs)

FeedbackRule(threshold, s) ==
    IF LowRate(s) THEN Max(50, threshold - 5)
    ELSE IF HighRate(s) THEN Min(90, threshold + 5)
    ELSE threshold

\* the threshold the learning agent's adjustment leaves: its new_threshold when
\* it wrote one, the current threshold when it wrote none
LearnedThreshold(s, threshold) ==
    IF s.strategy_adjustments # 0 THEN s.strategy_adjustments ELSE threshold

C19_OneAdjustment ==
    [][Len(state.scraped_jobs) > 0 =>
          /\ AdjustThreshold =>
                min_score_threshold' = FeedbackRule(min_score_threshold, state)
          /\ LearnFeedback =>
                LearnedThreshold(state', min_score_threshold)
                    = FeedbackRule(min_score_threshold, state)]_vars

\* C20: applied repeatedly at the same acceptance rate, the adjustment moves the
\* threshold in one direction only, one 0.05 step at a time, until it is at
\* 0.50 (low rate) or 0.90 (high rate), where it stays; it never moves the
\* other way and never moves by more than one step.
OneStepToward(bound, old, new) ==
    IF old = bound THEN new = bound
    ELSE IF bound < old THEN new < old /\ new >= old - 5 /\ new >= bound
    ELSE new > old /\ new <= old + 5 /\ new <= bound

Converges(s, old, new) ==
    IF LowRate(s) THEN OneStepToward(50, old, new)
    ELSE IF HighRate(s) THEN OneStepToward(90, old, new)
    ELSE new = old

C20_ConvergesToBound ==
    [][Len(state.scraped_jobs) > 0 =>
          /\ AdjustThreshold =>
                Converges(state, min_score_threshold, min_score_threshold')
          /\ LearnFeedback =>
                Converges(state, min_score_threshold,
                          LearnedThreshold(state', min_score_threshold))]_vars


\* C21: an approval request's status changes at most once, from pending to
\* approved, rejected or expired; once it is resolved, a later approve, reject
\* or expire call leaves the status unchanged.
Resolved(g) == g.status \in {"approved", "rejected", "expired"}

C21_GateResolvedOnce ==
    [][/\ gate'.status # gate.status => gate.status = "pending"
       /\ Resolved(gate) => gate'.status = gate.status]_vars

\* C22: an approval request is marked expired only when it is pending and the
\* clock is past expires_at, and a run of the expiry sweep marks every pending
\* request whose deadline has passed.
C22_ExpiryOnlyPastDeadline ==
    [][/\ (gate'.status = "expired" /\ gate.status # "expired")
            => (gate.status = "pending" /\ gate.now > gate.expires_at)
       /\ (CheckExpiredApprovals /\ is_expired(gate))
            => gate'.status = "expired"]_vars


\* C23: there is at most one current job; current_job and current_job_id are
\* both None or name the same job; the current job is None before the matcher
\* has first run, and None again once the router has decided after the apply
\* node for that job.
C23_ActiveCandidate ==
    /\ state.current_job = state.current_job_id
    /\ ~score_ran => state.current_job = NoJob
    /\ last_node # "apply" => state.current_job_id \notin finalized


\* C24: a stage whose execute hits an internal failure appends exactly one entry
\* to errors and returns the state (no exception leaves the node); errors is
\* append-only: within a run no stage, router decision or resume removes or
\* rewrites an entry.
IsPrefix(a, b) == Len(a) <= Len(b) /\ SubSeq(b, 1, Len(a)) = a

StageStep(n) == phase = "running" /\ node = n /\ last_node' = n

\* the scrape fails: user_preferences.get raises, or keywords[0] raises
ScrapeFails(s) == s.user_preferences \in {"badkw", "notdict"}

\* the stage step being taken hits a failure inside the stage
StageFails ==
    \/ StageStep("scrape") /\ ScrapeFails(state)
    \/ StageStep("match") /\ state.scraped_jobs # <<>>
                          /\ state.user_preferences = "notdict"
    \/ StageStep("tailor") /\ tailor_result' \in {"no_base", "raise"}

C24_ErrorsAppendOnly ==
    [][/\ StageFails => /\ Len(state'.errors) = Len(state.errors) + 1
                        /\ phase' # "raised"
       /\ invoked_by' = invoked_by \/ invoked_by' # "run"
            => IsPrefix(state.errors, state'.errors)]_vars

\* C25: a failed scrape returns the state with scraped_jobs empty and one more
\* errors entry, and raises nothing; jobs scraped earlier do not survive it.
C25_DiscoverFailure ==
    [][(StageStep("scrape") /\ ScrapeFails(state))
          => /\ state'.scraped_jobs = <<>>
             /\ Len(state'.errors) = Len(state.errors) + 1
             /\ phase' # "raised"]_vars


\* C26: every router invocation appends exactly one supervisor entry recording
\* its decision to agent_decisions, no entry is ever removed or changed, and
\* the number of supervisor entries equals the number of router invocations,
\* those that end in stop included.
SupervisorEntries(s) ==
    Cardinality({i \in 1..Len(s.agent_decisions) :
                    s.agent_decisions[i].agent = "supervisor"})

RouterStep == phase = "running" /\ node = "supervisor" /\ last_node' = "supervisor"

C26_DecisionLogged ==
    [][/\ RouterStep =>
            state'.agent_decisions =
                Append(state.agent_decisions,
                       [agent |-> "supervisor", decision |-> state'.next_action])
       /\ invoked_by' = invoked_by \/ invoked_by' # "run"
            => IsPrefix(state.agent_decisions, state'.agent_decisions)
       /\ SupervisorEntries(state') = router_calls']_vars


\* C27: the router's decision is a function of the state it is given, and a
\* router invocation changes nothing but next_action, agent_decisions and the
\* current_job / current_job_id / matched_jobs updates of its rows: it leaves
\* scraped_jobs, matching_scores, errors, tailored_resume and approval_status
\* (and every other field) unchanged.
RouterFrame(s, t) ==
    /\ t.scraped_jobs = s.scraped_jobs
    /\ t.matching_scores = s.matching_scores
    /\ t.tailored_resume = s.tailored_resume
    /\ t.approval_status = s.approval_status
    /\ t.user_preferences = s.user_preferences
    /\ t.current_step = s.current_step
    /\ t.base_resume = s.base_resume
    /\ t.application_status = s.application_status
    /\ t.strategy_adjustments = s.strategy_adjustments

Targets == Stages \cup {"stop", "wait"}

C29_NextActionIsTarget ==
    [][/\ state'.next_action \in Targets
       /\ RouterStep =>
            /\ _route_next_step(state') \in Targets
            /\ (state.current_step \notin Stages /\ ~SupervisorRaises)
                  => state'.next_action = "scrape"
            /\ SupervisorRaises
                  => /\ state'.next_action = "stop"
                     /\ Len(state'.errors) = Len(state.errors) + 1]_vars

C29_Witness ==
    /\ last_node = "supervisor"
    /\ state.next_action = "stop"
    /\ Len(state.errors) > 0
    /\ state.errors[Len(state.errors)].error = "Supervisor error"
    /\ \E i \in 1..Len(state.agent_decisions) :
          /\ state.agent_decisions[i] = [agent |-> "supervisor", decision |-> "scrape"]
          /\ i > 1
          /\ state.agent_decisions[i - 1].agent = "learning"

\* C28: whenever the router decides approve or apply, a current job is
\* selected, the tailor stage last produced a document for that same job, and
\* tailored_resume is the document that execution returned; no document of
\* another job reaches the gate or the apply stage.
DecidesGateOrApply ==
    RouterStep /\ state'.next_action \in {"approve", "apply"}

C28_DocumentOfActiveCandidate ==
    [][DecidesGateOrApply =>
         /\ state'.current_job # NoJob
         /\ tailored_for = state'.current_job
         /\ tailor_result \in LlmOutcomes
         /\ state'.tailored_resume =
               _tailor_resume(state'.base_resume, state'.current_job, tailor_result)]_vars

C28_Witness ==
    /\ last_node = "supervisor"
    /\ state.next_action = "apply"
    /\ state.current_job # NoJob
    /\ tailored_for = state.current_job
    /\ Truthy(state.tailored_resume)
    /\ Len(state.matched_jobs) > 1

\* C30: retry_on_failure calls func at most max_retries times; it returns the
\* value of the first successful call and calls no more; after max_retries
\* failures it re-raises the last failure; it waits 1, 2, 4, ... seconds before
\* each retry and not after the final failure; and for every max_retries it
\* returns only a value a successful call of func produced.
RetryCallsBounded ==
    /\ retry.calls <= retry.max_retries
    /\ retry.calls \in {Len(retry.failures), Len(retry.failures) + 1}

RetryFirstSuccess ==
    retry.func_value # "None" =>
        /\ retry.pc = "returned"
        /\ retry.returned = retry.func_value
        /\ retry.calls = Len(retry.failures) + 1

RetryReraisesLast ==
    /\ retry.pc = "raised" =>
          /\ Len(retry.failures) = retry.max_retries
          /\ retry.raised = retry.failures[Len(retry.failures)]
    /\ (Len(retry.failures) = retry.max_retries /\ retry.max_retries > 0)
          => retry.pc = "raised"

RetryBackoff ==
    /\ \A i \in 1..Len(retry.waits) : retry.waits[i] = BackoffBase ^ (i - 1)
    /\ retry.pc \in {"for", "call"} => Len(retry.waits) = Len(retry.failures)
    /\ retry.pc = "raised" => Len(retry.waits) = retry.max_retries - 1
    /\ retry.pc = "returned" => Len(retry.waits) = Len(retry.failures)

RetryReturnsFuncValue ==
    retry.pc = "returned" =>
        /\ retry.func_value # "None"
        /\ retry.returned = retry.func_value

RetryContractBesidesReturn ==
    RetryCallsBounded /\ RetryFirstSuccess /\ RetryReraisesLast /\ RetryBackoff

C30_RetryContract ==
    RetryContractBesidesReturn /\ RetryReturnsFuncValue

====
